---- MODULE Spec2Model ----
(***************************************************************************)
(* Plan rewriting and executor compilation of sql-query-engine-rs:         *)
(*   - InputRefRewriter (optimizer/input_ref_rewriter.rs)                  *)
(*   - try_collect and ExecutorBuilder (executor/mod.rs)                   *)
(*   - Binder::bind_table_ref (binder/table/mod.rs)                        *)
(*   - create_accumulators (executor/aggregate/mod.rs)                     *)
(*   - PhysicalProject (optimizer/plan_node/physical_project.rs)           *)
(* Rust indices are zero-based; TLA+ sequences are one-based, so an index  *)
(* stored in an InputRef is the sequence position minus one.               *)
(***************************************************************************)
EXTENDS Integers, Sequences, FiniteSets

VARIABLES
    \* InputRefRewriter on a logical plan
    plan,        \* the plan handed to InputRefRewriter.rewrite
    new_plan,    \* the plan it returned (NoPlan before the first run or after a panic)
    bindings,    \* InputRefRewriter.bindings
    resolved,    \* history: per rewritten node, bottom-up, the binding list its
                 \* expressions were resolved against and the bindings it left
    status,      \* "idle" | "ok" | "panic" : outcome of the last rewrite
    runs,        \* number of rewrite calls made on this rewriter
    \* InputRefRewriter.rewrite_expr on one expression
    expr,        \* the expression handed to rewrite_expr
    binding_list,\* self.bindings during the call
    rewritten,   \* the expression after the call, Panic, or NotRun
    \* try_collect
    executor,    \* the items the stream yields, in order
    pulled,      \* items try_next has taken from the stream
    output,      \* the local Vec of try_collect
    collected,   \* what try_collect returned, or Running
    \* Binder::bind_table_ref
    catalog,         \* the tables the catalog knows, by name
    context_tables,  \* self.context.tables
    table,           \* the table factor of the last call
    bound,           \* what the last call returned
    lookups,         \* history: names the last call asked the catalog for
    \* ExecutorBuilder
    physical_plan,   \* the plan handed to build
    built,           \* the executor build returned, Panic, or NotRun
    \* create_accumulators
    agg_exprs,       \* the expressions handed to create_accumulators
    accumulators,    \* what it returned, Panic, or NotRun
    \* PlanTreeNode::clone_with_children
    node,            \* the node clone_with_children is called on
    new_children,    \* the children handed to it
    cloned           \* the node it returned, or NotRun

rewriter_vars == <<plan, new_plan, bindings, resolved, status, runs>>
resolve_vars == <<expr, binding_list, rewritten>>
collect_vars == <<executor, pulled, output, collected>>
binder_vars == <<catalog, context_tables, table, bound, lookups>>
builder_vars == <<physical_plan, built>>
accumulator_vars == <<agg_exprs, accumulators>>
clone_vars == <<node, new_children, cloned>>

vars == <<rewriter_vars, resolve_vars, collect_vars, binder_vars, builder_vars,
          accumulator_vars, clone_vars>>

-----------------------------------------------------------------------------
(* Bounds *)

MaxDepth == 2      \* plan nodes stacked above the table scan
MaxExprs == 2      \* output expressions of a project
MaxRuns == 2       \* rewrite calls on one plan (the second re-resolves the first's result)

-----------------------------------------------------------------------------
(* Bound expressions (binder::BoundExpr) *)

NoType == "None"

Column(name) == [id |-> name, name |-> name, data_type |-> "Int32"]

Constant(v) == [kind |-> "Constant", value |-> v]

ColumnRef(c) == [kind |-> "ColumnRef", column_catalog |-> c]

InputRef(i, t) == [kind |-> "InputRef", index |-> i, return_type |-> t]

BinaryOp(op, l, r, t) ==
    [kind |-> "BinaryOp", op |-> op, left |-> l, right |-> r, return_type |-> t]

TypeCast(e, t) == [kind |-> "TypeCast", expr |-> e, cast_type |-> t]

AggFunc(f, args, t) == [kind |-> "AggFunc", func |-> f, exprs |-> args, return_type |-> t]

\* A panic (unreachable!, unwrap on None, todo!) aborts the call: no value is returned.
Panic == [kind |-> "Panic"]

\* BoundExpr::return_type(): every variant exposes its result type; a binary
\* operation carries an Option that may be None.
ReturnType(e) ==
    CASE e.kind = "Constant" -> "Int32"
      [] e.kind = "ColumnRef" -> e.column_catalog.data_type
      [] e.kind = "InputRef" -> e.return_type
      [] e.kind = "BinaryOp" -> e.return_type
      [] e.kind = "TypeCast" -> e.cast_type
      [] e.kind = "AggFunc" -> e.return_type

-----------------------------------------------------------------------------
(* InputRefRewriter: expressions *)

\* self.bindings.iter().position(|e| *e == expr): the first zero-based index
\* holding a structurally equal expression, or -1 for None.
\* Mutation of Position: reports the one-based position.
PositionOneBased(b, e) ==
    IF \E j \in 1..Len(b) : b[j] = e
    THEN CHOOSE j \in 1..Len(b) : b[j] = e /\ \A k \in 1..(j - 1) : b[k] # e
    ELSE -1

Position(b, e) ==
    IF \E j \in 1..Len(b) : b[j] = e
    THEN (CHOOSE j \in 1..Len(b) : b[j] = e /\ \A k \in 1..(j - 1) : b[k] # e) - 1
    ELSE -1

RECURSIVE RewriteExpr(_, _)

\* for expr in &mut exprs { self.rewrite_expr(expr) }: each element in place.
RewriteExprs(es, b) == [j \in 1..Len(es) |-> RewriteExpr(es[j], b)]

\* A panic while rewriting any element aborts the whole call.
AnyPanic(es) == \E j \in 1..Len(es) : es[j] = Panic

\* Mutation of RewriteInternal: an expression that is neither found nor a
\* composite is kept as it is instead of failing.
RewriteInternalKeepUnresolved(e, b) ==
    IF Position(b, e) # -1
    THEN IF ReturnType(e) = NoType
         THEN Panic
         ELSE InputRef(Position(b, e), ReturnType(e))
    ELSE CASE e.kind = "BinaryOp" ->
                LET l == RewriteExpr(e.left, b)
                    r == RewriteExpr(e.right, b)
                IN IF l = Panic \/ r = Panic
                   THEN Panic
                   ELSE [e EXCEPT !.left = l, !.right = r]
           [] e.kind = "TypeCast" ->
                LET x == RewriteExpr(e.expr, b)
                IN IF x = Panic THEN Panic ELSE [e EXCEPT !.expr = x]
           [] e.kind = "AggFunc" ->
                LET xs == RewriteExprs(e.exprs, b)
                IN IF AnyPanic(xs) THEN Panic ELSE [e EXCEPT !.exprs = xs]
           [] OTHER -> e

\* Mutation of RewriteInternal: only the left operand of a binary operation
\* is resolved.
RewriteInternalLeftOnly(e, b) ==
    IF Position(b, e) # -1
    THEN IF ReturnType(e) = NoType
         THEN Panic
         ELSE InputRef(Position(b, e), ReturnType(e))
    ELSE CASE e.kind = "BinaryOp" ->
                LET l == RewriteExpr(e.left, b)
                IN IF l = Panic THEN Panic ELSE [e EXCEPT !.left = l]
           [] e.kind = "TypeCast" ->
                LET x == RewriteExpr(e.expr, b)
                IN IF x = Panic THEN Panic ELSE [e EXCEPT !.expr = x]
           [] e.kind = "AggFunc" ->
                LET xs == RewriteExprs(e.exprs, b)
                IN IF AnyPanic(xs) THEN Panic ELSE [e EXCEPT !.exprs = xs]
           [] OTHER -> Panic

RewriteInternal(e, b) ==
    IF Position(b, e) # -1
    THEN IF ReturnType(e) = NoType
         THEN Panic
         ELSE InputRef(Position(b, e), ReturnType(e))
    ELSE CASE e.kind = "BinaryOp" ->
                LET l == RewriteExpr(e.left, b)
                    r == RewriteExpr(e.right, b)
                IN IF l = Panic \/ r = Panic
                   THEN Panic
                   ELSE [e EXCEPT !.left = l, !.right = r]
           [] e.kind = "TypeCast" ->
                LET x == RewriteExpr(e.expr, b)
                IN IF x = Panic THEN Panic ELSE [e EXCEPT !.expr = x]
           [] e.kind = "AggFunc" ->
                LET xs == RewriteExprs(e.exprs, b)
                IN IF AnyPanic(xs) THEN Panic ELSE [e EXCEPT !.exprs = xs]
           [] OTHER -> Panic

\* The ExprRewriter operations InputRefRewriter overrides.
RewriteColumnRef(e, b) == RewriteInternal(e, b)
RewriteTypeCast(e, b) == RewriteInternal(e, b)
RewriteBinaryOp(e, b) == RewriteInternal(e, b)
RewriteAggFunc(e, b) == RewriteInternal(e, b)

\* The ExprRewriter operations it leaves at their default: no-ops.
RewriteConstant(e, b) == e
RewriteInputRef(e, b) == e

\* ExprRewriter::rewrite_expr dispatches on the expression kind.
RewriteExpr(e, b) ==
    CASE e.kind = "Constant" -> RewriteConstant(e, b)
      [] e.kind = "ColumnRef" -> RewriteColumnRef(e, b)
      [] e.kind = "InputRef" -> RewriteInputRef(e, b)
      [] e.kind = "BinaryOp" -> RewriteBinaryOp(e, b)
      [] e.kind = "TypeCast" -> RewriteTypeCast(e, b)
      [] e.kind = "AggFunc" -> RewriteAggFunc(e, b)

-----------------------------------------------------------------------------
(* Logical plan nodes *)

NoPlan == [kind |-> "NoPlan"]

LogicalTableScan(id, cols) == [kind |-> "LogicalTableScan", table_id |-> id, columns |-> cols]

LogicalProject(exprs, input) == [kind |-> "LogicalProject", exprs |-> exprs, input |-> input]

LogicalFilter(predicate, input) ==
    [kind |-> "LogicalFilter", expr |-> predicate, input |-> input]

LogicalAgg(agg_funcs, group_by, input) ==
    [kind |-> "LogicalAgg", agg_funcs |-> agg_funcs, group_by |-> group_by, input |-> input]

\* What a node's rewrite leaves in the history.
Visit(kind, against, left) == [node |-> kind, against |-> against, bindings |-> left]

-----------------------------------------------------------------------------
(* InputRefRewriter: plan nodes.  Each operation returns the new plan, the  *)
(* binding list it leaves in self.bindings and the history, or Panic.       *)
(* self: the rewriter as the operation finds it, [bindings, resolved].      *)

\* A table scan that adds its columns to the bindings it finds.
RewriteLogicalTableScanExtendsBindings(p, self) ==
    LET b == self.bindings \o [j \in 1..Len(p.columns) |-> ColumnRef(p.columns[j])]
    IN [plan |-> p, bindings |-> b,
        resolved |-> Append(self.resolved, Visit(p.kind, <<>>, b))]

\* self.bindings = ... : whatever the rewriter held is overwritten.
RewriteLogicalTableScan(p, self) ==
    LET b == [j \in 1..Len(p.columns) |-> ColumnRef(p.columns[j])]
    IN [plan |-> p, bindings |-> b,
        resolved |-> Append(self.resolved, Visit(p.kind, <<>>, b))]

\* child: the result of self.rewrite(plan.input())
RewriteLogicalProject(p, child) ==
    LET new_exprs == RewriteExprs(p.exprs, child.bindings)
    IN IF AnyPanic(new_exprs)
       THEN Panic
       ELSE [plan |-> LogicalProject(new_exprs, child.plan),
             bindings |-> p.exprs,
             resolved |-> Append(child.resolved, Visit(p.kind, child.bindings, p.exprs))]

RewriteLogicalFilter(p, child) ==
    LET new_expr == RewriteExpr(p.expr, child.bindings)
    IN IF new_expr = Panic
       THEN Panic
       ELSE [plan |-> LogicalFilter(new_expr, child.plan),
             bindings |-> child.bindings,
             resolved |-> Append(child.resolved,
                                 Visit(p.kind, child.bindings, child.bindings))]

RewriteLogicalAgg(p, child) ==
    LET b == p.group_by \o p.agg_funcs
        new_agg_funcs == RewriteExprs(p.agg_funcs, child.bindings)
        new_group_exprs == RewriteExprs(p.group_by, child.bindings)
    IN IF AnyPanic(new_agg_funcs) \/ AnyPanic(new_group_exprs)
       THEN Panic
       ELSE [plan |-> LogicalAgg(new_agg_funcs, new_group_exprs, child.plan),
             bindings |-> b,
             resolved |-> Append(child.resolved, Visit(p.kind, child.bindings, b))]

RECURSIVE RewritePlan(_, _)
\* PlanRewriter::rewrite dispatches on the node kind.
RewritePlan(p, self) ==
    IF p.kind = "LogicalTableScan"
    THEN RewriteLogicalTableScan(p, self)
    ELSE LET child == RewritePlan(p.input, self)
         IN IF child = Panic
            THEN Panic
            ELSE CASE p.kind = "LogicalProject" -> RewriteLogicalProject(p, child)
                   [] p.kind = "LogicalFilter" -> RewriteLogicalFilter(p, child)
                   [] p.kind = "LogicalAgg" -> RewriteLogicalAgg(p, child)

-----------------------------------------------------------------------------
(* Plans handed to the rewriter *)

c1 == ColumnRef(Column("c1"))
c2 == ColumnRef(Column("c2"))
Plus1(e) == BinaryOp("Plus", e, Constant(1), "Int32")
Eq2(e) == BinaryOp("Eq", e, Constant(2), "Boolean")
Sum(e) == AggFunc("Sum", <<e>>, "Int32")

TestTableScan == LogicalTableScan("t", <<Column("c1"), Column("c2")>>)

ProjectPool == {c1, Plus1(c1), Plus1(c2), Sum(c1)}

FilterPool == {Eq2(c1), Eq2(Plus1(c2))}

AggFuncPool == {<<Sum(c1)>>, <<Sum(Plus1(c2))>>, <<Sum(Plus1(c2)), Sum(c1)>>, <<Sum(c1), Sum(c1)>>}

GroupByPool == {<<>>, <<c1>>}

SeqsUpTo(S, n) == UNION {[1..k -> S] : k \in 1..n}

RECURSIVE Depth(_)
Depth(p) == IF p.kind = "LogicalTableScan" THEN 0 ELSE 1 + Depth(p.input)

-----------------------------------------------------------------------------
(* Each component is exercised by a specification of its own; the state of   *)
(* the components a specification does not exercise stays at these values.   *)

NotRun == [kind |-> "NotRun"]
Running == [kind |-> "Running"]

RewriterIdle ==
    /\ plan = NoPlan /\ new_plan = NoPlan /\ bindings = <<>> /\ resolved = <<>>
    /\ status = "idle" /\ runs = 0

ResolveIdle == expr = NotRun /\ binding_list = <<>> /\ rewritten = NotRun

CollectIdle == executor = <<>> /\ pulled = 0 /\ output = <<>> /\ collected = Running

BinderIdle ==
    /\ catalog = {} /\ context_tables = {} /\ table = NotRun /\ bound = NotRun
    /\ lookups = <<>>

BuilderIdle == physical_plan = NoPlan /\ built = NotRun

AccumulatorIdle == agg_exprs = <<>> /\ accumulators = NotRun

CloneIdle == node = NoPlan /\ new_children = <<>> /\ cloned = NotRun

OutsideRewriter ==
    <<resolve_vars, collect_vars, binder_vars, builder_vars, accumulator_vars, clone_vars>>

-----------------------------------------------------------------------------
(* State machine of the rewriter *)

InitRewriter ==
    /\ plan = TestTableScan
    /\ new_plan = NoPlan
    /\ bindings = <<>>
    /\ resolved = <<>>
    /\ status = "idle"
    /\ runs = 0
    /\ ResolveIdle /\ CollectIdle /\ BinderIdle /\ BuilderIdle
    /\ AccumulatorIdle /\ CloneIdle

\* The planner stacks a node on the plan before it is handed to the rewriter.
Planning == status = "idle" /\ Depth(plan) < MaxDepth

AddProject ==
    /\ Planning
    /\ \E es \in SeqsUpTo(ProjectPool, MaxExprs) : plan' = LogicalProject(es, plan)
    /\ UNCHANGED <<new_plan, bindings, resolved, status, runs>>
    /\ UNCHANGED OutsideRewriter

AddFilter ==
    /\ Planning
    /\ \E e \in FilterPool : plan' = LogicalFilter(e, plan)
    /\ UNCHANGED <<new_plan, bindings, resolved, status, runs>>
    /\ UNCHANGED OutsideRewriter

AddAgg ==
    /\ Planning
    /\ \E fs \in AggFuncPool, gs \in GroupByPool : plan' = LogicalAgg(fs, gs, plan)
    /\ UNCHANGED <<new_plan, bindings, resolved, status, runs>>
    /\ UNCHANGED OutsideRewriter

\* rewriter.rewrite(p): first on the planner's plan, then again on its own result.
Rewrite ==
    /\ runs < MaxRuns
    /\ status # "panic"
    /\ LET p == IF runs = 0 THEN plan ELSE new_plan
           r == RewritePlan(p, [bindings |-> bindings, resolved |-> <<>>])
       IN /\ plan' = p
          /\ runs' = runs + 1
          /\ IF r = Panic
             THEN /\ status' = "panic"
                  /\ new_plan' = NoPlan
                  /\ resolved' = <<>>
                  /\ UNCHANGED bindings
             ELSE /\ status' = "ok"
                  /\ new_plan' = r.plan
                  /\ bindings' = r.bindings
                  /\ resolved' = r.resolved
    /\ UNCHANGED OutsideRewriter

NextRewriter == AddProject \/ AddFilter \/ AddAgg \/ Rewrite

SpecRewriter == InitRewriter /\ [][NextRewriter]_vars

-----------------------------------------------------------------------------
(* rewrite_expr on one expression against one binding list *)

MaxBindings == 3   \* entries of the binding list

c3 == ColumnRef(Column("c3"))

Leaves == {c1, c2, c3, Constant(1), Constant(2), InputRef(0, "Int32")}

BinaryOps ==
    {BinaryOp("Eq", l, r, "Boolean") : l \in Leaves, r \in {c2, Constant(2)}}
    \cup {BinaryOp("Plus", l, r, t) : l \in {c1, c3}, r \in {Constant(1)}, t \in {"Int32", NoType}}

Nested == {Eq2(Plus1(c1)), TypeCast(Plus1(c1), "Int64"), Sum(Plus1(c1)), Sum(c2)}

ResolvePool == Leaves \cup BinaryOps \cup Nested

BindingPool == {c1, c2, Constant(2), Eq2(c1), Plus1(c1), BinaryOp("Plus", c1, Constant(1), NoType)}

InitResolve ==
    /\ expr \in ResolvePool
    /\ binding_list \in {<<>>} \cup SeqsUpTo(BindingPool, MaxBindings)
    /\ rewritten = NotRun
    /\ RewriterIdle /\ CollectIdle /\ BinderIdle /\ BuilderIdle
    /\ AccumulatorIdle /\ CloneIdle

OutsideResolve ==
    <<rewriter_vars, collect_vars, binder_vars, builder_vars, accumulator_vars, clone_vars>>

\* self.rewrite_expr(&mut expr) with self.bindings = binding_list
ResolveExpr ==
    /\ rewritten = NotRun
    /\ rewritten' = RewriteExpr(expr, binding_list)
    /\ UNCHANGED <<expr, binding_list>>
    /\ UNCHANGED OutsideResolve

NextResolve == ResolveExpr

SpecResolve == InitResolve /\ [][NextResolve]_vars

-----------------------------------------------------------------------------
(* try_collect: draining an executor stream *)

MaxStream == 3     \* items the stream can yield

RecordBatch(n) == [kind |-> "Batch", id |-> n]

ExecutorError(cause) == [kind |-> "Err", error |-> cause]

StreamItems ==
    {RecordBatch(1), RecordBatch(2), ExecutorError("Storage"), ExecutorError("Arrow")}

InitCollect ==
    /\ executor \in {<<>>} \cup SeqsUpTo(StreamItems, MaxStream)
    /\ pulled = 0
    /\ output = <<>>
    /\ collected = Running
    /\ RewriterIdle /\ ResolveIdle /\ BinderIdle /\ BuilderIdle
    /\ AccumulatorIdle /\ CloneIdle

OutsideCollect ==
    <<rewriter_vars, resolve_vars, binder_vars, builder_vars, accumulator_vars, clone_vars>>

\* try_next() yields Some(batch): output.push(batch)
TryNextBatch ==
    /\ collected = Running
    /\ pulled < Len(executor)
    /\ executor[pulled + 1].kind = "Batch"
    /\ pulled' = pulled + 1
    /\ output' = Append(output, executor[pulled + 1])
    /\ UNCHANGED <<executor, collected>>
    /\ UNCHANGED OutsideCollect

\* Mutation of TryNextError: the error item is skipped and the loop goes on.
TryNextErrorSkipped ==
    /\ collected = Running
    /\ pulled < Len(executor)
    /\ executor[pulled + 1].kind = "Err"
    /\ pulled' = pulled + 1
    /\ UNCHANGED <<executor, output, collected>>
    /\ UNCHANGED OutsideCollect

\* try_next() yields an error: `?` returns it at once; the Vec is dropped with
\* the call (output keeps what it held when the call returned).
TryNextError ==
    /\ collected = Running
    /\ pulled < Len(executor)
    /\ executor[pulled + 1].kind = "Err"
    /\ pulled' = pulled + 1
    /\ collected' = [kind |-> "Err", error |-> executor[pulled + 1].error]
    /\ UNCHANGED <<executor, output>>
    /\ UNCHANGED OutsideCollect

\* try_next() yields None: the loop ends and Ok(output) is returned.
TryNextEnd ==
    /\ collected = Running
    /\ pulled = Len(executor)
    /\ collected' = [kind |-> "Ok", batches |-> output]
    /\ UNCHANGED <<executor, pulled, output>>
    /\ UNCHANGED OutsideCollect

NextCollect == TryNextBatch \/ TryNextError \/ TryNextEnd

SpecCollect == InitCollect /\ [][NextCollect]_vars

-----------------------------------------------------------------------------
(* Binder::bind_table_ref *)

MaxParts == 4      \* dotted components of a table name

Idents == {"t", "s"}

TableCatalog(name) == [id |-> name]

\* ObjectName's to_string(): the components joined by "."; a text is modelled
\* as the sequence of its pieces.
ObjectNameToString(name) ==
    IF Len(name) = 0
    THEN <<>>
    ELSE [i \in 1..(2 * Len(name) - 1) |->
            IF i % 2 = 1 THEN name[(i + 1) \div 2] ELSE "."]

InvalidTable(text) == [kind |-> "Err", error |-> "InvalidTable", name |-> text]

BoundTableRef(tc) == [kind |-> "Ok", table_catalog |-> tc]

\* catalog.get_table_by_name(name): the table's descriptor, or None
NoTable == [id |-> "None"]
GetTableByName(cat, name) == IF name \in cat THEN TableCatalog(name) ELSE NoTable

\* HashMap::insert: the entry of the key is replaced
Insert(m, k, v) == {e \in m : e[1] # k} \cup {<<k, v>>}

TableFactor(name) == [kind |-> "Table", name |-> name]

TableFactors ==
    {TableFactor(n) : n \in {<<>>} \cup SeqsUpTo(Idents, MaxParts)}
    \cup {[kind |-> "Derived", name |-> <<>>]}

InitBinder ==
    /\ catalog \in SUBSET Idents
    /\ context_tables = {}
    /\ table = NotRun
    /\ bound = NotRun
    /\ lookups = <<>>
    /\ RewriterIdle /\ ResolveIdle /\ CollectIdle /\ BuilderIdle
    /\ AccumulatorIdle /\ CloneIdle

OutsideBinder ==
    <<rewriter_vars, resolve_vars, collect_vars, builder_vars, accumulator_vars, clone_vars>>

\* Mutation of BindTableRef: a name of four components is taken like one of
\* three, by its last component.
BindTableRefFourParts(factor) ==
    /\ bound # Panic
    /\ table' = factor
    /\ IF factor.kind # "Table"
       THEN bound' = Panic /\ lookups' = <<>> /\ UNCHANGED context_tables
       ELSE IF Len(factor.name) \notin 1..4
       THEN /\ bound' = InvalidTable(ObjectNameToString(factor.name))
            /\ lookups' = <<>>
            /\ UNCHANGED context_tables
       ELSE LET table_name == factor.name[Len(factor.name)]
                table_catalog == GetTableByName(catalog, table_name)
            IN /\ lookups' = <<table_name>>
               /\ IF table_catalog = NoTable
                  THEN /\ bound' = InvalidTable(<<table_name>>)
                       /\ UNCHANGED context_tables
                  ELSE /\ context_tables' = Insert(context_tables, table_name, table_catalog)
                       /\ bound' = BoundTableRef(table_catalog)
    /\ UNCHANGED catalog
    /\ UNCHANGED OutsideBinder

BindTableRef(factor) ==
    /\ bound # Panic
    /\ table' = factor
    /\ IF factor.kind # "Table"
       THEN bound' = Panic /\ lookups' = <<>> /\ UNCHANGED context_tables
       ELSE IF Len(factor.name) \notin 1..3
       THEN /\ bound' = InvalidTable(ObjectNameToString(factor.name))
            /\ lookups' = <<>>
            /\ UNCHANGED context_tables
       ELSE LET table_name == factor.name[Len(factor.name)]
                table_catalog == GetTableByName(catalog, table_name)
            IN /\ lookups' = <<table_name>>
               /\ IF table_catalog = NoTable
                  THEN /\ bound' = InvalidTable(<<table_name>>)
                       /\ UNCHANGED context_tables
                  ELSE /\ context_tables' = Insert(context_tables, table_name, table_catalog)
                       /\ bound' = BoundTableRef(table_catalog)
    /\ UNCHANGED catalog
    /\ UNCHANGED OutsideBinder

NextBinder == \E factor \in TableFactors : BindTableRef(factor)

SpecBinder == InitBinder /\ [][NextBinder]_vars

-----------------------------------------------------------------------------
(* ExecutorBuilder: compiling a physical plan into an executor pipeline *)

MaxPhysicalDepth == 2   \* nodes stacked above the bottom node of a physical plan
MaxChildren == 2        \* children of one plan node

PlanNodeOf(kind, children) == [kind |-> kind, children |-> children]

PlanKinds ==
    {"PhysicalTableScan", "PhysicalProject", "PhysicalFilter", "PhysicalSimpleAgg",
     "LogicalProject"}

SingleChildKinds == {"PhysicalProject", "PhysicalFilter", "PhysicalSimpleAgg"}

\* Option::None of a visit
NoExecutor == [kind |-> "None"]

RECURSIVE VisitPlan(_)

VisitPhysicalTableScan(p) == [kind |-> "TableScanExecutor"]

\* plan.children().first().unwrap() of a node, compiled and unwrapped
VisitFirstChild(p) ==
    IF Len(p.children) = 0
    THEN Panic
    ELSE IF VisitPlan(p.children[1]) = NoExecutor
         THEN Panic
         ELSE VisitPlan(p.children[1])

VisitPhysicalProject(p) ==
    IF VisitFirstChild(p) = Panic
    THEN Panic
    ELSE [kind |-> "ProjectExecutor", child |-> VisitFirstChild(p)]

VisitPhysicalFilter(p) ==
    IF VisitFirstChild(p) = Panic
    THEN Panic
    ELSE [kind |-> "FilterExecutor", child |-> VisitFirstChild(p)]

VisitPhysicalSimpleAgg(p) ==
    IF VisitFirstChild(p) = Panic
    THEN Panic
    ELSE [kind |-> "SimpleAggExecutor", child |-> VisitFirstChild(p)]

\* PlanVisitor::visit dispatches on the node kind; a kind the builder has no
\* operation for yields None.
VisitPlan(p) ==
    CASE p.kind = "PhysicalTableScan" -> VisitPhysicalTableScan(p)
      [] p.kind = "PhysicalProject" -> VisitPhysicalProject(p)
      [] p.kind = "PhysicalFilter" -> VisitPhysicalFilter(p)
      [] p.kind = "PhysicalSimpleAgg" -> VisitPhysicalSimpleAgg(p)
      [] OTHER -> NoExecutor

\* ExecutorBuilder::build: self.visit(plan).unwrap()
BuildExecutor(p) == IF VisitPlan(p) = NoExecutor THEN Panic ELSE VisitPlan(p)

RECURSIVE PhysicalDepth(_)
PhysicalDepth(p) ==
    IF Len(p.children) = 0 THEN 0 ELSE 1 + PhysicalDepth(p.children[1])

\* Further children of a node, after the first
Siblings ==
    {<<>>} \cup SeqsUpTo({PlanNodeOf("PhysicalTableScan", <<>>),
                         PlanNodeOf("PhysicalProject", <<>>)}, MaxChildren - 1)

InitBuilder ==
    /\ physical_plan \in {PlanNodeOf(k, <<>>) : k \in PlanKinds}
    /\ built = NotRun
    /\ RewriterIdle /\ ResolveIdle /\ CollectIdle /\ BinderIdle
    /\ AccumulatorIdle /\ CloneIdle

OutsideBuilder ==
    <<rewriter_vars, resolve_vars, collect_vars, binder_vars, accumulator_vars, clone_vars>>

\* A node is put over the plan, the plan its first child.
StackNode ==
    /\ built = NotRun
    /\ PhysicalDepth(physical_plan) < MaxPhysicalDepth
    /\ \E k \in PlanKinds \ {"PhysicalTableScan"}, more \in Siblings :
         physical_plan' = PlanNodeOf(k, <<physical_plan>> \o more)
    /\ UNCHANGED built
    /\ UNCHANGED OutsideBuilder

\* builder.build(physical_plan)
Build ==
    /\ built = NotRun
    /\ built' = BuildExecutor(physical_plan)
    /\ UNCHANGED physical_plan
    /\ UNCHANGED OutsideBuilder

NextBuilder == StackNode \/ Build

SpecBuilder == InitBuilder /\ [][NextBuilder]_vars

-----------------------------------------------------------------------------
(* create_accumulators *)

MaxAggExprs == 3   \* aggregate expressions handed to create_accumulators

SumAccumulator(data_type) == [kind |-> "SumAccumulator", data_type |-> data_type]

\* Mutation of CreateAccumulator: count gets a sum accumulator instead of todo!().
CreateAccumulatorCountAsSum(e) ==
    IF e.kind = "AggFunc"
    THEN CASE e.func = "Count" -> SumAccumulator(e.return_type)
           [] e.func = "Sum" -> SumAccumulator(e.return_type)
           [] e.func = "Min" -> Panic
           [] e.func = "Max" -> Panic
    ELSE Panic

CreateAccumulator(e) ==
    IF e.kind = "AggFunc"
    THEN CASE e.func = "Count" -> Panic
           [] e.func = "Sum" -> SumAccumulator(e.return_type)
           [] e.func = "Min" -> Panic
           [] e.func = "Max" -> Panic
    ELSE Panic

\* exprs.iter().map(create_accumulator).collect(): a panic in any element aborts.
CreateAccumulators(es) ==
    IF \E j \in 1..Len(es) : CreateAccumulator(es[j]) = Panic
    THEN Panic
    ELSE [kind |-> "Accumulators",
          list |-> [j \in 1..Len(es) |-> CreateAccumulator(es[j])]]

AccumulatorPool ==
    {AggFunc("Sum", <<c1>>, "Int32"), AggFunc("Sum", <<c2>>, "Int64"),
     AggFunc("Count", <<c1>>, "Int64"), AggFunc("Min", <<c1>>, "Int32"),
     AggFunc("Max", <<c1>>, "Int32"), c1}

InitAccumulator ==
    /\ agg_exprs \in {<<>>} \cup SeqsUpTo(AccumulatorPool, MaxAggExprs)
    /\ accumulators = NotRun
    /\ RewriterIdle /\ ResolveIdle /\ CollectIdle /\ BinderIdle
    /\ BuilderIdle /\ CloneIdle

OutsideAccumulator ==
    <<rewriter_vars, resolve_vars, collect_vars, binder_vars, builder_vars, clone_vars>>

CreateAccumulatorsCall ==
    /\ accumulators = NotRun
    /\ accumulators' = CreateAccumulators(agg_exprs)
    /\ UNCHANGED agg_exprs
    /\ UNCHANGED OutsideAccumulator

NextAccumulator == CreateAccumulatorsCall

SpecAccumulator == InitAccumulator /\ [][NextAccumulator]_vars

-----------------------------------------------------------------------------
(* PlanTreeNode::clone_with_children of a project node *)

\* In this component a project node carries its children as the sequence
\* children() returns.
LogicalProjectNode(exprs, children) ==
    [kind |-> "LogicalProject", exprs |-> exprs, children |-> children]

PhysicalProject(logical) == [kind |-> "PhysicalProject", logical |-> logical]

\* The logical project's reconstruction: a new node of the same kind over the
\* new children, with the same output expressions.
LogicalProjectCloneWithChildren(n, children) == LogicalProjectNode(n.exprs, children)

LogicalProjectChildren(n) == n.children

\* The logical project's output layout: one column per output expression.
LogicalProjectSchema(n) == [j \in 1..Len(n.exprs) |-> ReturnType(n.exprs[j])]

PhysicalProjectSchema(n) == LogicalProjectSchema(n.logical)

PhysicalProjectChildren(n) == LogicalProjectChildren(n.logical)

PhysicalProjectCloneWithChildren(n, children) ==
    LogicalProjectCloneWithChildren(n.logical, children)

CloneWithChildren(n, children) ==
    IF n.kind = "PhysicalProject"
    THEN PhysicalProjectCloneWithChildren(n, children)
    ELSE LogicalProjectCloneWithChildren(n, children)

ScanNodes == {LogicalTableScan("t", <<Column("c1"), Column("c2")>>),
              LogicalTableScan("u", <<Column("c1")>>)}

InitClone ==
    /\ \E es \in SeqsUpTo(ProjectPool, MaxExprs), child \in ScanNodes :
         node \in {LogicalProjectNode(es, <<child>>),
                   PhysicalProject(LogicalProjectNode(es, <<child>>))}
    /\ new_children = <<>>
    /\ cloned = NotRun
    /\ RewriterIdle /\ ResolveIdle /\ CollectIdle /\ BinderIdle
    /\ BuilderIdle /\ AccumulatorIdle

OutsideClone ==
    <<rewriter_vars, resolve_vars, collect_vars, binder_vars, builder_vars,
      accumulator_vars>>

\* node.clone_with_children(children)
CloneWithChildrenCall ==
    /\ cloned = NotRun
    /\ \E children \in SeqsUpTo(ScanNodes, MaxChildren) :
         /\ new_children' = children
         /\ cloned' = CloneWithChildren(node, children)
    /\ UNCHANGED node
    /\ UNCHANGED OutsideClone

NextClone == CloneWithChildrenCall

SpecClone == InitClone /\ [][NextClone]_vars

-----------------------------------------------------------------------------
(* Properties of the input-reference resolution pass *)

\* The nodes of a plan, table scan first: Nodes(plan)[k] is rewritten into
\* Nodes(new_plan)[k] and resolved[k] is what the rewriter recorded for it.
RECURSIVE Nodes(_)
Nodes(p) == IF p.kind = "LogicalTableScan" THEN <<p>> ELSE Append(Nodes(p.input), p)

NodeExprs(n) ==
    CASE n.kind = "LogicalProject" -> n.exprs
      [] n.kind = "LogicalFilter" -> <<n.expr>>
      [] n.kind = "LogicalAgg" -> n.agg_funcs \o n.group_by
      [] OTHER -> <<>>

SubExprs(e) ==
    CASE e.kind = "BinaryOp" -> <<e.left, e.right>>
      [] e.kind = "TypeCast" -> <<e.expr>>
      [] e.kind = "AggFunc" -> e.exprs
      [] OTHER -> <<>>

RECURSIVE HasColumnRef(_)
HasColumnRef(e) ==
    \/ e.kind = "ColumnRef"
    \/ \E j \in 1..Len(SubExprs(e)) : HasColumnRef(SubExprs(e)[j])

RECURSIVE InputRefsBelow(_, _)
InputRefsBelow(e, n) ==
    IF e.kind = "InputRef"
    THEN e.index >= 0 /\ e.index < n
    ELSE \A j \in 1..Len(SubExprs(e)) : InputRefsBelow(SubExprs(e)[j], n)

\* C1 as stated: in every rewritten project, an output expression that is a
\* ColumnRef equal to the binding at (zero-based) position i of the input's
\* binding list becomes InputRef(i, type of the column), for every such i.
C1_ColumnRefAtAnyPosition ==
    status = "ok" =>
        \A k \in 1..Len(resolved) :
            LET old == Nodes(plan)[k]
                new == Nodes(new_plan)[k]
                against == resolved[k].against
            IN old.kind = "LogicalProject" =>
                \A j \in 1..Len(old.exprs) : \A i \in 1..Len(against) :
                    (old.exprs[j].kind = "ColumnRef" /\ against[i] = old.exprs[j])
                    => new.exprs[j]
                         = InputRef(i - 1, old.exprs[j].column_catalog.data_type)

\* C1 amended: in every rewritten project, an output expression that is a
\* ColumnRef present among the input's bindings becomes InputRef(i, type of
\* the column), where i is the first (lowest) zero-based position holding a
\* structurally equal binding.
C1_ColumnRefAtFirstPosition ==
    status = "ok" =>
        \A k \in 1..Len(resolved) :
            LET old == Nodes(plan)[k]
                new == Nodes(new_plan)[k]
                against == resolved[k].against
            IN old.kind = "LogicalProject" =>
                \A j \in 1..Len(old.exprs) : \A i \in 1..Len(against) :
                    (/\ old.exprs[j].kind = "ColumnRef"
                     /\ against[i] = old.exprs[j]
                     /\ \A m \in 1..(i - 1) : against[m] # old.exprs[j])
                    => new.exprs[j]
                         = InputRef(i - 1, old.exprs[j].column_catalog.data_type)

\* A project [.., c1, ..] over an input whose bindings hold c1 first at
\* zero-based position 1 has been rewritten to InputRef(1, Int32).
C1_Witness ==
    /\ status = "ok"
    /\ \E k \in 1..Len(resolved) :
        /\ Nodes(plan)[k].kind = "LogicalProject"
        /\ Len(resolved[k].against) >= 2
        /\ resolved[k].against[1] # c1
        /\ resolved[k].against[2] = c1
        /\ \E j \in 1..Len(Nodes(plan)[k].exprs) :
            /\ Nodes(plan)[k].exprs[j] = c1
            /\ Nodes(new_plan)[k].exprs[j] = InputRef(1, "Int32")

\* C2: when rewrite completes, no expression of any node of the result holds
\* a ColumnRef, and every InputRef index is below the length of the binding
\* list the expression was resolved against.
C2_FullyResolved ==
    status = "ok" =>
        \A k \in 1..Len(resolved) :
            LET es == NodeExprs(Nodes(new_plan)[k])
            IN \A j \in 1..Len(es) :
                /\ ~HasColumnRef(es[j])
                /\ InputRefsBelow(es[j], Len(resolved[k].against))

\* A first run has completed on a plan of two nodes over the scan whose
\* expressions held ColumnRefs, and the top node now refers to position 1.
C2_Witness ==
    /\ status = "ok" /\ runs = 1 /\ Len(resolved) = 3
    /\ \A k \in 2..3 : \E j \in 1..Len(NodeExprs(Nodes(plan)[k])) :
            HasColumnRef(NodeExprs(Nodes(plan)[k])[j])
    /\ \E j \in 1..Len(NodeExprs(new_plan)) :
            ~InputRefsBelow(NodeExprs(new_plan)[j], 1)

\* C3: running rewrite again on the plan a completed run returned completes
\* and returns that plan unchanged.
C3_Idempotent == runs >= 2 => (status = "ok" /\ new_plan = plan)

\* C4: in every rewritten simple-aggregate node each aggregate expression is
\* still an AggFunc with the same function and result type, its arguments and
\* the group-by expressions resolved against the input's binding list.
C4_AggFuncStaysAggFunc ==
    status = "ok" =>
        \A k \in 1..Len(resolved) :
            LET old == Nodes(plan)[k]
                new == Nodes(new_plan)[k]
                against == resolved[k].against
            IN old.kind = "LogicalAgg" =>
                /\ \A j \in 1..Len(old.agg_funcs) :
                    /\ new.agg_funcs[j].kind = "AggFunc"
                    /\ new.agg_funcs[j].func = old.agg_funcs[j].func
                    /\ new.agg_funcs[j].return_type = old.agg_funcs[j].return_type
                    /\ ~HasColumnRef(new.agg_funcs[j])
                    /\ InputRefsBelow(new.agg_funcs[j], Len(against))
                /\ \A j \in 1..Len(old.group_by) :
                    /\ ~HasColumnRef(new.group_by[j])
                    /\ InputRefsBelow(new.group_by[j], Len(against))

\* The output row shape of a node, in the expressions the node held before
\* the rewrite.
RECURSIVE OutputBindings(_)
OutputBindings(n) ==
    CASE n.kind = "LogicalTableScan" ->
            [j \in 1..Len(n.columns) |-> ColumnRef(n.columns[j])]
      [] n.kind = "LogicalProject" -> n.exprs
      [] n.kind = "LogicalFilter" -> OutputBindings(n.input)
      [] n.kind = "LogicalAgg" -> n.group_by \o n.agg_funcs

\* After each node's rewrite, and so after the whole run, the binding list is
\* the node's output row shape, whatever the rewriter held before the run.
BindingsAreOutputShape ==
    /\ bindings = OutputBindings(plan)
    /\ Len(resolved) = Len(Nodes(plan))
    /\ \A k \in 1..Len(resolved) :
        /\ resolved[k].node = Nodes(plan)[k].kind
        /\ resolved[k].bindings = OutputBindings(Nodes(plan)[k])

\* C11 as stated: after a completed run the binding list left by every node
\* is its output row shape in pre-rewrite expressions (scan: one ColumnRef per
\* column; project: its original expressions; filter: its input's list;
\* aggregate: group_by ++ agg_funcs), and a project expression equal to the
\* j-th aggregate expression (an AggFunc) of its input becomes
\* InputRef(|group_by| + j), j counted from zero.
C11_BindingsAfterNodeAnyPosition ==
    status = "ok" =>
        /\ BindingsAreOutputShape
        /\ \A k \in 2..Len(resolved) :
            LET old == Nodes(plan)[k]
                new == Nodes(new_plan)[k]
            IN (old.kind = "LogicalProject" /\ old.input.kind = "LogicalAgg") =>
                \A i \in 1..Len(old.exprs) : \A j \in 1..Len(old.input.agg_funcs) :
                    (/\ old.input.agg_funcs[j].kind = "AggFunc"
                     /\ old.exprs[i] = old.input.agg_funcs[j])
                    => new.exprs[i]
                         = InputRef(Len(old.input.group_by) + j - 1,
                                    old.input.agg_funcs[j].return_type)

\* C11: after a completed run the binding list left by every node is its
\* output row shape in pre-rewrite expressions, whatever the rewriter held
\* before, and a project expression equal to the j-th aggregate expression
\* (an AggFunc) of its input becomes InputRef(|group_by| + j), j counted from
\* zero, when no earlier entry of group_by ++ agg_funcs is equal to it.
C11_BindingsAfterNode ==
    status = "ok" =>
        /\ BindingsAreOutputShape
        /\ \A k \in 2..Len(resolved) :
            LET old == Nodes(plan)[k]
                new == Nodes(new_plan)[k]
                shape == old.input.group_by \o old.input.agg_funcs
            IN (old.kind = "LogicalProject" /\ old.input.kind = "LogicalAgg") =>
                \A i \in 1..Len(old.exprs) : \A j \in 1..Len(old.input.agg_funcs) :
                    (/\ old.input.agg_funcs[j].kind = "AggFunc"
                     /\ old.exprs[i] = old.input.agg_funcs[j]
                     /\ \A m \in 1..(Len(old.input.group_by) + j - 1) :
                            shape[m] # old.exprs[i])
                    => new.exprs[i]
                         = InputRef(Len(old.input.group_by) + j - 1,
                                    old.input.agg_funcs[j].return_type)

\* A project naming the second aggregate expression of an aggregate with one
\* group-by expression was rewritten to InputRef(2), and the rewriter is left
\* with the project's original expressions.
C11_Witness ==
    /\ status = "ok" /\ Len(resolved) = 3
    /\ plan.kind = "LogicalProject" /\ plan.input.kind = "LogicalAgg"
    /\ Len(plan.input.group_by) = 1 /\ Len(plan.input.agg_funcs) = 2
    /\ plan.input.agg_funcs[1] # plan.input.agg_funcs[2]
    /\ \E i \in 1..Len(plan.exprs) :
        /\ plan.exprs[i] = plan.input.agg_funcs[2]
        /\ new_plan.exprs[i] = InputRef(2, "Int32")
    /\ resolved[2].bindings = plan.input.group_by \o plan.input.agg_funcs
    /\ bindings = plan.exprs

\* C5: a binary operation that is not itself a binding keeps its operator and
\* result type, and its operands are resolved each as it would be alone
\* against the same binding list (the call fails when either fails); a constant
\* operand is unchanged; c1 = 2 with c1 at position 0 becomes
\* InputRef(0) = Constant(2) whatever the other bindings are.
C5_OperandsResolvedIndependently ==
    (/\ rewritten # NotRun
     /\ expr.kind = "BinaryOp"
     /\ \A i \in 1..Len(binding_list) : binding_list[i] # expr)
    => LET l == RewriteExpr(expr.left, binding_list)
           r == RewriteExpr(expr.right, binding_list)
       IN /\ IF l = Panic \/ r = Panic
             THEN rewritten = Panic
             ELSE rewritten = BinaryOp(expr.op, l, r, expr.return_type)
          /\ (rewritten # Panic /\ expr.left.kind = "Constant")
                => rewritten.left = expr.left
          /\ (rewritten # Panic /\ expr.right.kind = "Constant")
                => rewritten.right = expr.right
          /\ (expr = Eq2(c1) /\ Len(binding_list) >= 1 /\ binding_list[1] = c1)
                => rewritten = BinaryOp("Eq", InputRef(0, "Int32"), Constant(2), "Boolean")

\* c1 = 2 has been resolved against [c1, 2, c2]: the constant is itself a
\* binding and c2 is present, and the result is InputRef(0) = Constant(2).
C5_Witness ==
    /\ expr = Eq2(c1)
    /\ binding_list = <<c1, Constant(2), c2>>
    /\ rewritten = BinaryOp("Eq", InputRef(0, "Int32"), Constant(2), "Boolean")

-----------------------------------------------------------------------------
(* Properties of try_collect *)

\* One-based position of the first error item of the stream, Len + 1 if none
FirstError ==
    IF \E i \in 1..Len(executor) : executor[i].kind = "Err"
    THEN CHOOSE i \in 1..Len(executor) :
            /\ executor[i].kind = "Err"
            /\ \A m \in 1..(i - 1) : executor[m].kind = "Batch"
    ELSE Len(executor) + 1

-----------------------------------------------------------------------------
(* Properties of bind_table_ref *)

\* C7: a call on a table name of no or of four or more components returns
\* InvalidTable with the full name, asks the catalog nothing and leaves the
\* context's tables as they were; a name of one to three components is looked
\* up by its last component alone, and a miss returns InvalidTable with that
\* component, the context's tables again unchanged.
C7_InvalidTableNames ==
    [][table'.kind = "Table" =>
        IF Len(table'.name) = 0 \/ Len(table'.name) >= 4
        THEN /\ bound' = InvalidTable(ObjectNameToString(table'.name))
             /\ lookups' = <<>>
             /\ context_tables' = context_tables
        ELSE /\ lookups' = <<table'.name[Len(table'.name)]>>
             /\ table'.name[Len(table'.name)] \notin catalog =>
                  /\ bound' = InvalidTable(<<table'.name[Len(table'.name)]>>)
                  /\ context_tables' = context_tables]_vars

\* After a table was bound, a name of four components whose last component
\* is in the catalog was rejected with the full dotted name.
C7_Witness ==
    /\ table.kind = "Table"
    /\ Len(table.name) = 4
    /\ table.name[4] \in catalog
    /\ bound = InvalidTable(<<table.name[1], ".", table.name[2], ".",
                              table.name[3], ".", table.name[4]>>)
    /\ lookups = <<>>
    /\ context_tables # {}

-----------------------------------------------------------------------------
(* Properties of the executor builder *)

\* The nodes build visits: the root and, below it, every first child
RECURSIVE VisitedNodes(_)
VisitedNodes(p) ==
    {p} \cup (IF Len(p.children) = 0 THEN {} ELSE VisitedNodes(p.children[1]))

-----------------------------------------------------------------------------
(* Properties of create_accumulators *)

\* C9: create_accumulators returns one accumulator per expression, in order,
\* a sum accumulator carrying the expression's result type, when every
\* expression is a sum; when any expression is count, min, max or no
\* aggregate function at all, it fails and returns nothing.
C9_OnePerExpressionOrFail ==
    accumulators # NotRun =>
        IF \A j \in 1..Len(agg_exprs) :
              agg_exprs[j].kind = "AggFunc" /\ agg_exprs[j].func = "Sum"
        THEN /\ accumulators # Panic
             /\ Len(accumulators.list) = Len(agg_exprs)
             /\ \A j \in 1..Len(agg_exprs) :
                   accumulators.list[j] = SumAccumulator(agg_exprs[j].return_type)
        ELSE accumulators = Panic

\* A sum followed by a count was handed over: nothing was returned.
C9_Witness ==
    /\ Len(agg_exprs) = 2
    /\ agg_exprs[1].kind = "AggFunc" /\ agg_exprs[1].func = "Sum"
    /\ agg_exprs[2].kind = "AggFunc" /\ agg_exprs[2].func = "Count"
    /\ accumulators = Panic

-----------------------------------------------------------------------------
(* Properties of clone_with_children *)

NodeExprsOf(n) == IF n.kind = "PhysicalProject" THEN n.logical.exprs ELSE n.exprs

NodeChildrenOf(n) ==
    IF n.kind = "PhysicalProject" THEN PhysicalProjectChildren(n) ELSE LogicalProjectChildren(n)

NodeSchemaOf(n) ==
    IF n.kind = "PhysicalProject" THEN PhysicalProjectSchema(n) ELSE LogicalProjectSchema(n)

\* C10: clone_with_children returns a node of the kind it was called on, over
\* the new children, with the same output expressions and output layout.
C10_CloneKeepsKind ==
    cloned # NotRun =>
        /\ cloned.kind = node.kind
        /\ NodeChildrenOf(cloned) = new_children
        /\ NodeExprsOf(cloned) = NodeExprsOf(node)
        /\ NodeSchemaOf(cloned) = NodeSchemaOf(node)

====
